---- MODULE Spec2Model ----
(***************************************************************************)
(* Model of the public-api gateway of simple-microservices-demo:           *)
(* PublicAPIHandler.GetPublicListings (handler.go) together with the two   *)
(* clients it calls, ListingServiceClient.GetListings and                  *)
(* UserServiceClient.GetUserByID.  One request is followed from its query  *)
(* string to the encoded response; every goroutine launched for a user     *)
(* lookup is a process of the model, with the WaitGroup, the Mutex and the *)
(* buffered error channel as explicit state.                               *)
(***************************************************************************)
EXTENDS Integers, Sequences, FiniteSets, TLC

\* ------------------------------------------------------------------ bounds
MaxPage == 3        \* longest listing page the listing source returns
MaxUserID == 2      \* user references are 1..MaxUserID

\* --------------------------------------------------------- program constants
DefaultPageNum == 1
DefaultPageSize == 10
StatusOK == 200
StatusBadRequest == 400
StatusNotFound == 404
StatusInternalServerError == 500

VARIABLES
    pc,             \* position of the handler goroutine
    listingReq,     \* request in flight to the listing source, or Nil
    listingResp,    \* what the listing source answered, or Nil
    listings,       \* local `listings` of the handler
    uniqueUserIDs,  \* local `uniqueUserIDs` (keys of the map)
    task,           \* per user id: the goroutine launched for it
    userMap,        \* shared map id -> *client.User
    mu,             \* sync.Mutex: 0 when free, else the id of the holder
    wg,             \* sync.WaitGroup counter
    errorsChan,     \* buffered channel: [buf, cap, closed]
    response,       \* what was written to the ResponseWriter, or Nil
    lookupCalls,    \* per user id: number of GET /users/{id} issued
    completionOrder,\* ids in the order their goroutines called wg.Done
    mapWrites,      \* per user id: number of writes userMap[id] = ...
    query,          \* query string of the inbound request, Nil once sent on
    create,         \* the create handlers: position, body, calls, response
    lookup,         \* one GET /users/{id}: client, user service and back
    other,           \* the locals of a second, concurrent request
    ptr           \* pointers: [userMap: id -> object, User: object per merged listing]

vars == <<pc, listingReq, listingResp, listings, uniqueUserIDs, task, userMap, mu, wg,
          errorsChan, response, lookupCalls, completionOrder, mapWrites, query,
          create, lookup, other,
          ptr>>

\* The variables of the GetPublicListings request.
listingsVars == <<pc, listingReq, listingResp, listings, uniqueUserIDs, task,
                  userMap, mu, wg, errorsChan, response, lookupCalls,
                  completionOrder, mapWrites, query>>

\* nil pointer / nil slice / nil error
Nil == [nil |-> TRUE]

UserIDs == 1..MaxUserID
ListingIDs == 1..MaxPage

\* ------------------------------------------------------------ data records
\* client.Listing as decoded from the listing source.
Listing(id, uid) ==
    [ID |-> id, UserID |-> uid,
     ListingType |-> IF id % 2 = 1 THEN "rent" ELSE "sale",
     Price |-> 100 * id, CreatedAt |-> 1000 + id, UpdatedAt |-> 2000 + id]

RECURSIVE SeqsUpTo(_, _)
SeqsUpTo(S, n) ==
    IF n = 0 THEN {<<>>}
    ELSE LET shorter == SeqsUpTo(S, n - 1)
         IN  shorter \cup {Append(s, x) : s \in {t \in shorter : Len(t) = n - 1}, x \in S}

\* The pages the listing source may return: every sequence of user
\* references up to MaxPage; the identifiers along a page of n listings are
\* 2, 3, ..., n, 1, so that they are distinct and not sorted.
Pages ==
    {[i \in 1..Len(refs) |-> Listing((i % Len(refs)) + 1, refs[i])] :
        refs \in SeqsUpTo(UserIDs, MaxPage)}

\* client.User as decoded from the user source for GET /users/{id}.
User(id) ==
    [ID |-> id, Name |-> IF id % 2 = 1 THEN "A" ELSE "B",
     CreatedAt |-> 10 + id, UpdatedAt |-> 20 + id]

\* An error value (non-nil `error`).
Err(msg) == [msg |-> msg]

\* ------------------------------------------------------ upstream responses
\* What httpClient.Do hands back: sent = FALSE is a transport error; else a
\* status code and a body that decodes (or not) to Result and a payload.
HTTPResp(sent, status, decodable, result, payload) ==
    [sent |-> sent, status |-> status, decodable |-> decodable,
     Result |-> result, payload |-> payload]

ListingFailures ==
    {HTTPResp(FALSE, 0, FALSE, FALSE, <<>>),
     HTTPResp(TRUE, StatusInternalServerError, TRUE, FALSE, <<>>),
     HTTPResp(TRUE, StatusOK, FALSE, FALSE, <<>>),
     HTTPResp(TRUE, StatusOK, TRUE, FALSE, <<>>)}

ListingHTTPResponses ==
    ListingFailures \cup {HTTPResp(TRUE, StatusOK, TRUE, TRUE, p) : p \in Pages}

UserFailures ==
    {HTTPResp(FALSE, 0, FALSE, FALSE, Nil),
     HTTPResp(TRUE, StatusInternalServerError, TRUE, FALSE, Nil),
     HTTPResp(TRUE, StatusOK, FALSE, FALSE, Nil),
     HTTPResp(TRUE, StatusOK, TRUE, FALSE, Nil)}

UserHTTPResponses(id) ==
    UserFailures \cup
    {HTTPResp(TRUE, StatusNotFound, TRUE, FALSE, Nil),
     HTTPResp(TRUE, StatusOK, TRUE, TRUE, Nil),
     HTTPResp(TRUE, StatusOK, TRUE, TRUE, User(id))}

\* ------------------------------------------------------------------ clients
\* GetListings without the check of the upstream result flag (lines 113-115).
GetListingsIgnoreResult(resp) ==
    IF ~resp.sent
    THEN [listings |-> <<>>, err |-> Err("failed to send request to Listing Service")]
    ELSE IF resp.status # StatusOK
    THEN [listings |-> <<>>, err |-> Err("Listing Service returned non-OK status")]
    ELSE IF ~resp.decodable
    THEN [listings |-> <<>>, err |-> Err("failed to decode Listing Service response")]
    ELSE [listings |-> resp.payload, err |-> Nil]

\* ListingServiceClient.GetListings: (listings, err) for an upstream answer.
GetListings(resp) ==
    IF ~resp.sent
    THEN [listings |-> <<>>, err |-> Err("failed to send request to Listing Service")]
    ELSE IF resp.status # StatusOK
    THEN [listings |-> <<>>, err |-> Err("Listing Service returned non-OK status")]
    ELSE IF ~resp.decodable
    THEN [listings |-> <<>>, err |-> Err("failed to decode Listing Service response")]
    ELSE IF ~resp.Result
    THEN [listings |-> <<>>, err |-> Err("Listing Service reported error")]
    ELSE [listings |-> resp.payload, err |-> Nil]

\* GetUserByID without the 404 case of lines 90-92.
GetUserByIDNoNotFound(resp) ==
    IF ~resp.sent
    THEN [user |-> Nil, err |-> Err("failed to send request to User Service")]
    ELSE IF resp.status # StatusOK
    THEN [user |-> Nil, err |-> Err("User Service returned non-OK status")]
    ELSE IF ~resp.decodable
    THEN [user |-> Nil, err |-> Err("failed to decode User Service response")]
    ELSE IF ~resp.Result
    THEN [user |-> Nil, err |-> Err("User Service reported error")]
    ELSE [user |-> resp.payload, err |-> Nil]

\* UserServiceClient.GetUserByID: (user, err) for an upstream answer.
GetUserByID(resp) ==
    IF ~resp.sent
    THEN [user |-> Nil, err |-> Err("failed to send request to User Service")]
    ELSE IF resp.status = StatusNotFound
    THEN [user |-> Nil, err |-> Nil]
    ELSE IF resp.status # StatusOK
    THEN [user |-> Nil, err |-> Err("User Service returned non-OK status")]
    ELSE IF ~resp.decodable
    THEN [user |-> Nil, err |-> Err("failed to decode User Service response")]
    ELSE IF ~resp.Result
    THEN [user |-> Nil, err |-> Err("User Service reported error")]
    ELSE [user |-> resp.payload, err |-> Nil]

\* ------------------------------------------------------------ query parsing
\* A query value is a sequence of one-character strings.
Digits == {"0", "1", "2", "3", "4", "5", "6", "7", "8", "9"}

DigitVal(c) ==
    CASE c = "0" -> 0 [] c = "1" -> 1 [] c = "2" -> 2 [] c = "3" -> 3
      [] c = "4" -> 4 [] c = "5" -> 5 [] c = "6" -> 6 [] c = "7" -> 7
      [] c = "8" -> 8 [] c = "9" -> 9

RECURSIVE DigitsVal(_)
DigitsVal(s) ==
    IF s = <<>> THEN 0
    ELSE 10 * DigitsVal(SubSeq(s, 1, Len(s) - 1)) + DigitVal(s[Len(s)])

\* strconv.Atoi on the values of QueryValues (all far below the int range).
Atoi(s) ==
    LET signed == s # <<>> /\ s[1] \in {"+", "-"}
        body == IF signed THEN Tail(s) ELSE s
    IN  IF body = <<>> \/ \E i \in 1..Len(body) : body[i] \notin Digits
        THEN [val |-> 0, err |-> Err("invalid syntax")]
        ELSE [val |-> IF signed /\ s[1] = "-" THEN 0 - DigitsVal(body)
                      ELSE DigitsVal(body),
              err |-> Nil]

DigitChar(d) ==
    CASE d = 0 -> "0" [] d = 1 -> "1" [] d = 2 -> "2" [] d = 3 -> "3"
      [] d = 4 -> "4" [] d = 5 -> "5" [] d = 6 -> "6" [] d = 7 -> "7"
      [] d = 8 -> "8" [] d = 9 -> "9"

RECURSIVE NatDigits(_)
NatDigits(n) ==
    IF n < 10 THEN <<DigitChar(n)>>
    ELSE Append(NatDigits(n \div 10), DigitChar(n % 10))

\* strconv.Itoa / strconv.FormatInt(_, 10)
Itoa(n) == IF n < 0 THEN <<"-">> \o NatDigits(0 - n) ELSE NatDigits(n)

QueryValues ==
    {<<>>, <<"x">>, <<"0">>, <<"-", "1">>, <<"2">>, <<"+", "2">>, <<"1", "5">>}
FilterValues == {<<>>, <<"1">>}

\* handler.go 138-141
PageNum(pageNumStr) ==
    LET r == Atoi(pageNumStr)
    IN  IF r.err # Nil \/ r.val < 1 THEN DefaultPageNum ELSE r.val

\* PageSize replacing only a negative page size.
PageSizeAllowZero(pageSizeStr) ==
    LET r == Atoi(pageSizeStr)
    IN  IF r.err # Nil \/ r.val < 0 THEN DefaultPageSize ELSE r.val

\* handler.go 142-145
PageSize(pageSizeStr) ==
    LET r == Atoi(pageSizeStr)
    IN  IF r.err # Nil \/ r.val < 1 THEN DefaultPageSize ELSE r.val

\* listing_service_client.go 84-89: the query parameters of the page request
\* (url.Values), the filter only when it is not empty.
ListingsQuery(pageNum, pageSize, userID) ==
    [k \in {"page_num", "page_size"} \cup (IF userID # <<>> THEN {"user_id"} ELSE {}) |->
        CASE k = "page_num" -> Itoa(pageNum)
          [] k = "page_size" -> Itoa(pageSize)
          [] k = "user_id" -> userID]

\* ------------------------------------------------------ handler operators
\* handler.go 161-165
UniqueUserIDs(ls) == {ls[i].UserID : i \in 1..Len(ls)}

\* map read: the zero value (nil pointer) for a missing key
MapGet(um, k) == IF k \in DOMAIN um THEN um[k] ELSE Nil

\* PublicListing with the map read under the listing's own identifier.
PublicListingByListingID(listing, um) ==
    [ID |-> listing.ID, ListingType |-> listing.ListingType,
     Price |-> listing.Price, CreatedAt |-> listing.CreatedAt,
     UpdatedAt |-> listing.UpdatedAt, User |-> MapGet(um, listing.ID)]

\* PublicListing that marks a failed lookup with an empty user record.
PublicListingMarkFailed(listing, um) ==
    [ID |-> listing.ID, ListingType |-> listing.ListingType,
     Price |-> listing.Price, CreatedAt |-> listing.CreatedAt,
     UpdatedAt |-> listing.UpdatedAt,
     User |-> IF task[listing.UserID].err # Nil
              THEN [ID |-> 0, Name |-> "", CreatedAt |-> 0, UpdatedAt |-> 0]
              ELSE MapGet(um, listing.UserID)]

\* handler.go 212-219
PublicListing(listing, um) ==
    [ID |-> listing.ID, ListingType |-> listing.ListingType,
     Price |-> listing.Price, CreatedAt |-> listing.CreatedAt,
     UpdatedAt |-> listing.UpdatedAt, User |-> MapGet(um, listing.UserID)]

\* The merge with listings that have no user left out.
AggregateListingsDropMissing(ls, um) ==
    SelectSeq([i \in 1..Len(ls) |-> PublicListing(ls[i], um)],
              LAMBDA pl : pl.User # Nil)

RECURSIVE GroupByOrder(_, _)
GroupByOrder(ls, order) ==
    IF order = <<>> THEN <<>>
    ELSE SelectSeq(ls, LAMBDA l : l.UserID = Head(order))
         \o GroupByOrder(ls, Tail(order))

\* The merge walking the lookups in their completion order.
AggregateListingsByCompletion(ls, um) ==
    LET grouped == GroupByOrder(ls, completionOrder)
    IN  [i \in 1..Len(grouped) |-> PublicListing(grouped[i], um)]

\* handler.go 210-221
AggregateListings(ls, um) == [i \in 1..Len(ls) |-> PublicListing(ls[i], um)]

PublicListingsResponse(status, result, pls, error) ==
    [status |-> status, Result |-> result, Listings |-> pls, Error |-> error]

\* handler.go 151-152
FetchFailedResponse ==
    PublicListingsResponse(StatusInternalServerError, FALSE, <<>>,
                           "Failed to retrieve listings")

\* The empty page answered as a failed fetch.
EmptyPageResponseAsFailure ==
    PublicListingsResponse(StatusInternalServerError, FALSE, <<>>,
                           "Failed to retrieve listings")

\* handler.go 157
EmptyPageResponse == PublicListingsResponse(StatusOK, TRUE, <<>>, "")

EmptyMap == [k \in {} |-> Nil]

\* An unbuffered error channel.
ErrorsChanCapUnbuffered(ids) == 0

\* handler.go 171: make(chan error, len(uniqueUserIDs))
ErrorsChanCap(ids) == Cardinality(ids)

\* Pointers.  Each successful GetUserByID call decodes into one new
\* client.User object (user_service_client.go 98, 107); ObjectOf(id) names
\* the object decoded by the lookup for id, NilPtr is the nil pointer.
NilPtr == 0
ObjectOf(id) == id
PtrGet(pm, k) == IF k \in DOMAIN pm THEN pm[k] ELSE NilPtr
NoPtr == [userMap |-> [k \in {} |-> NilPtr], User |-> <<>>]
NoTask == [pc |-> "none", user |-> Nil, err |-> Nil]

\* -------------------------------------------------------- create handlers
\* The create handlers before any create request.
NoCreate ==
    [pc |-> "idle", op |-> "none", body |-> Nil, sent |-> Nil, answer |-> Nil,
     userCalls |-> 0, listingCalls |-> 0, response |-> Nil]

\* Decoded JSON bodies of POST /public-api/users; a field that is missing
\* decodes to its zero value.
UserBodies ==
    {[decodable |-> FALSE, Name |-> ""]} \cup
    {[decodable |-> TRUE, Name |-> n] : n \in {"", "alice", "bob"}}

\* Decoded JSON bodies of POST /public-api/listings.
ListingBodies ==
    {[decodable |-> FALSE, UserID |-> 0, ListingType |-> "", Price |-> 0]} \cup
    {[decodable |-> TRUE, UserID |-> u, ListingType |-> t, Price |-> p] :
        u \in {0, 1, 2, 0 - 1}, t \in {"", "rent", "sale", "lease"},
        p \in {0 - 5, 0, 1, 250}}

\* handler.go 69
UserRequestValid(body) == body.Name # ""

\* The validation of a listing with the price test of line 105 as `< 0`.
ListingRequestValidZeroPrice(body) ==
    /\ ~(body.UserID = 0 \/ body.ListingType = "" \/ body.Price < 0)
    /\ ~(body.ListingType # "rent" /\ body.ListingType # "sale")

\* handler.go 105-114
ListingRequestValid(body) ==
    /\ ~(body.UserID = 0 \/ body.ListingType = "" \/ body.Price <= 0)
    /\ ~(body.ListingType # "rent" /\ body.ListingType # "sale")

\* What the user source answers to POST /users with this name.
CreateUserResponses(name) ==
    UserFailures \cup
    {HTTPResp(TRUE, StatusOK, TRUE, TRUE,
              [ID |-> 1, Name |-> name, CreatedAt |-> 11, UpdatedAt |-> 11])}

\* What the listing source answers to POST /listings with this form.
CreateListingResponses(form) ==
    UserFailures \cup
    {HTTPResp(TRUE, StatusOK, TRUE, TRUE,
              [ID |-> 1, UserID |-> Atoi(form.user_id).val,
               ListingType |-> form.listing_type,
               Price |-> Atoi(form.price).val,
               CreatedAt |-> 1001, UpdatedAt |-> 1001])}

\* UserServiceClient.CreateUser: (user, err) for an upstream answer.
CreateUser(resp) ==
    IF ~resp.sent
    THEN [user |-> Nil, err |-> Err("failed to send request to User Service")]
    ELSE IF resp.status # StatusOK
    THEN [user |-> Nil, err |-> Err("User Service returned non-OK status")]
    ELSE IF ~resp.decodable
    THEN [user |-> Nil, err |-> Err("failed to decode User Service response")]
    ELSE IF ~resp.Result
    THEN [user |-> Nil, err |-> Err("User Service reported error")]
    ELSE [user |-> resp.payload, err |-> Nil]

\* ListingServiceClient.CreateListing: (listing, err) for an upstream answer.
CreateListing(resp) ==
    IF ~resp.sent
    THEN [listing |-> Nil, err |-> Err("failed to send request to Listing Service")]
    ELSE IF resp.status # StatusOK
    THEN [listing |-> Nil, err |-> Err("Listing Service returned non-OK status")]
    ELSE IF ~resp.decodable
    THEN [listing |-> Nil, err |-> Err("failed to decode Listing Service response")]
    ELSE IF ~resp.Result
    THEN [listing |-> Nil, err |-> Err("Listing Service reported error")]
    ELSE [listing |-> resp.payload, err |-> Nil]

\* A response of a create handler: status, error text, encoded record.
CreateResponse(status, error, payload) ==
    [status |-> status, error |-> error, payload |-> payload]

\* ------------------------------------------------------------ user service
\* sqliteUserRepository.GetUserByID: the row of the id, (nil, nil) for no
\* row, an error when the query fails.
RepoGetUserByID(id, store, dbFails) ==
    IF dbFails THEN [user |-> Nil, err |-> Err("failed to scan user by ID")]
    ELSE IF id \in store THEN [user |-> User(id), err |-> Nil]
    ELSE [user |-> Nil, err |-> Nil]

\* UserService.GetUserByID
ServiceGetUserByID(id, store, dbFails) ==
    IF id <= 0 THEN [user |-> Nil, err |-> Err("invalid user ID")]
    ELSE RepoGetUserByID(id, store, dbFails)

\* UserHandler.GetUserByID: the answer to GET /users/{idStr}.
UserHandlerGetUserByID(idStr, store, dbFails) ==
    LET parsed == Atoi(idStr)
    IN  IF parsed.err # Nil
        THEN HTTPResp(TRUE, StatusBadRequest, TRUE, FALSE, Nil)
        ELSE LET r == ServiceGetUserByID(parsed.val, store, dbFails)
             IN  IF r.err # Nil
                 THEN HTTPResp(TRUE, StatusInternalServerError, TRUE, FALSE, Nil)
                 ELSE IF r.user = Nil
                 THEN HTTPResp(TRUE, StatusNotFound, TRUE, FALSE, Nil)
                 ELSE HTTPResp(TRUE, StatusOK, TRUE, TRUE, r.user)

\* The identifiers a lookup is made for, and the stores it is made against
\* (the table assigns identifiers from 1).
LookupIDs == (0 - 1)..MaxUserID
Stores == SUBSET UserIDs

NoLookup ==
    [pc |-> "idle", id |-> 0, path |-> <<>>, store |-> {}, dbFails |-> FALSE,
     answer |-> Nil, result |-> Nil]

\* ------------------------------------------------- two concurrent requests
\* net/http runs every request in its own goroutine on the one
\* PublicAPIHandler, whose only fields are the two clients (handler.go
\* 14-17).  Everything GetPublicListings works on is declared in its body
\* (lines 131-171, 210); `other` holds those locals for the request that is
\* not taking the step, from before its first step on.
NoOther ==
    [pc |-> "idle", listingReq |-> Nil, listingResp |-> Nil, listings |-> <<>>,
     uniqueUserIDs |-> {}, task |-> [id \in UserIDs |-> NoTask],
     userMap |-> EmptyMap, mu |-> 0, wg |-> 0,
     errorsChan |-> [buf |-> <<>>, cap |-> 0, closed |-> FALSE],
     response |-> Nil, lookupCalls |-> [id \in UserIDs |-> 0],
     completionOrder |-> <<>>, mapWrites |-> [id \in UserIDs |-> 0],
     query |-> Nil, ptr |-> NoPtr]

\* The pages and the lookup answers of the two-request runs: two pages that
\* share the reference 1, and one answer for each outcome of a lookup: found,
\* not found, failed.
TwoPages == {<<Listing(1, 1)>>, <<Listing(2, 1), Listing(1, 2)>>}
TwoListingResponses ==
    {HTTPResp(TRUE, StatusOK, TRUE, TRUE, p) : p \in TwoPages}
    \cup {HTTPResp(FALSE, 0, FALSE, FALSE, <<>>)}
OneAnswerPerOutcome(id) ==
    {HTTPResp(TRUE, StatusOK, TRUE, TRUE, User(id)),
     HTTPResp(TRUE, StatusNotFound, TRUE, FALSE, Nil),
     HTTPResp(FALSE, 0, FALSE, FALSE, Nil)}

\* --------------------------------------------------------------------- Init
Init ==
    /\ pc = "idle"
    /\ listingReq = Nil
    /\ listingResp = Nil
    /\ listings = <<>>
    /\ uniqueUserIDs = {}
    /\ task = [id \in UserIDs |-> NoTask]
    /\ userMap = EmptyMap
    /\ mu = 0
    /\ wg = 0
    /\ errorsChan = [buf |-> <<>>, cap |-> 0, closed |-> FALSE]
    /\ response = Nil
    /\ lookupCalls = [id \in UserIDs |-> 0]
    /\ completionOrder = <<>>
    /\ mapWrites = [id \in UserIDs |-> 0]
    /\ query = Nil
    /\ create = NoCreate
    /\ lookup = NoLookup
    /\ other = NoOther
    /\ ptr = NoPtr

\* ------------------------------------------------------- handler goroutine
\* handler.go 131-148 and listing_service_client.go 82-98: the query is
\* parsed, defaulted, and the page request goes out to the listing source.
ReceiveRequest(pageNumStr, pageSizeStr, userIDFilter) ==
    /\ pc = "idle"
    /\ query' = [page_num |-> pageNumStr, page_size |-> pageSizeStr,
                 user_id |-> userIDFilter]
    /\ listingReq' = ListingsQuery(PageNum(pageNumStr), PageSize(pageSizeStr),
                                   userIDFilter)
    /\ pc' = "fetching"
    /\ UNCHANGED <<listingResp, listings, uniqueUserIDs, task, userMap, mu, wg,
                   errorsChan, response, lookupCalls,
                   completionOrder, mapWrites, create, lookup, other, ptr>>

\* handler.go 148-171: GetListings returns; on error the 500 response, on an
\* empty page the empty success response, else the reference set, the map,
\* and the error channel are created.
FetchReturn(resp) ==
    /\ pc = "fetching"
    /\ query' = Nil
    /\ listingReq' = Nil
    /\ listingResp' = resp
    /\ LET r == GetListings(resp)
       IN  /\ listings' = r.listings
           /\ IF r.err # Nil
              THEN /\ response' = FetchFailedResponse
                   /\ pc' = "done"
                   /\ UNCHANGED <<uniqueUserIDs, errorsChan>>
              ELSE IF Len(r.listings) = 0
              THEN /\ response' = EmptyPageResponse
                   /\ pc' = "done"
                   /\ UNCHANGED <<uniqueUserIDs, errorsChan>>
              ELSE /\ uniqueUserIDs' = UniqueUserIDs(r.listings)
                   /\ errorsChan' = [buf |-> <<>>,
                                     cap |-> ErrorsChanCap(UniqueUserIDs(r.listings)),
                                     closed |-> FALSE]
                   /\ pc' = "spawn"
                   /\ UNCHANGED response
    /\ UNCHANGED <<task, userMap, mu, wg, lookupCalls,
                   completionOrder, mapWrites, create, lookup, other, ptr>>

\* The loop that launches a lookup only when no earlier one is still running.
LaunchSerial(id) ==
    /\ pc = "spawn"
    /\ id \in uniqueUserIDs
    /\ task[id].pc = "none"
    /\ \A k \in UserIDs : task[k].pc \in {"none", "done"}
    /\ wg' = wg + 1
    /\ task' = [task EXCEPT ![id].pc = "start"]
    /\ pc' = IF \A k \in uniqueUserIDs \ {id} : task[k].pc # "none"
             THEN "wait" ELSE "spawn"
    /\ UNCHANGED <<listingReq, listingResp, listings, uniqueUserIDs, userMap, mu,
                   errorsChan, response, lookupCalls,
                   completionOrder, mapWrites, query, create, lookup,
                   other, ptr>>

\* handler.go 173-175, 189-190: one iteration of the range loop (Go visits
\* the keys in an unspecified order): wg.Add(1) and the go statement.
Launch(id) ==
    /\ pc = "spawn"
    /\ id \in uniqueUserIDs
    /\ task[id].pc = "none"
    /\ wg' = wg + 1
    /\ task' = [task EXCEPT ![id].pc = "start"]
    /\ pc' = IF \A k \in uniqueUserIDs \ {id} : task[k].pc # "none"
             THEN "wait" ELSE "spawn"
    /\ UNCHANGED <<listingReq, listingResp, listings, uniqueUserIDs, userMap, mu,
                   errorsChan, response, lookupCalls,
                   completionOrder, mapWrites, query, create, lookup,
                   other, ptr>>

\* wg.Wait() that does not look at the counter.
WgWaitNoBarrier ==
    /\ pc = "wait"
    /\ pc' = "close"
    /\ UNCHANGED <<listingReq, listingResp, listings, uniqueUserIDs, task, userMap,
                   mu, wg, errorsChan, response, lookupCalls,
                   completionOrder, mapWrites, query, create, lookup,
                   other, ptr>>

\* handler.go 192: wg.Wait() returns only when the counter is zero.
WgWait ==
    /\ pc = "wait"
    /\ wg = 0
    /\ pc' = "close"
    /\ UNCHANGED <<listingReq, listingResp, listings, uniqueUserIDs, task, userMap, mu, wg,
                   errorsChan, response, lookupCalls,
                   completionOrder, mapWrites, query, create, lookup,
                   other, ptr>>

\* handler.go 193
CloseErrorsChan ==
    /\ pc = "close"
    /\ errorsChan' = [errorsChan EXCEPT !.closed = TRUE]
    /\ pc' = "drain"
    /\ UNCHANGED <<listingReq, listingResp, listings, uniqueUserIDs, task, userMap, mu, wg,
                   response, lookupCalls, completionOrder, mapWrites,
                   query, create, lookup, other, ptr>>

\* The drain loop with "Option 1" of lines 199-203 enabled: any lookup error
\* fails the request.
DrainErrorsStrict ==
    /\ pc = "drain"
    /\ errorsChan.closed
    /\ errorsChan' = [errorsChan EXCEPT !.buf = <<>>]
    /\ IF errorsChan.buf # <<>>
       THEN /\ response' = PublicListingsResponse(StatusInternalServerError, FALSE,
                               <<>>, "Failed to retrieve all user details")
            /\ pc' = "done"
       ELSE /\ pc' = "merge"
            /\ UNCHANGED response
    /\ UNCHANGED <<listingReq, listingResp, listings, uniqueUserIDs, task, userMap,
                   mu, wg, lookupCalls, completionOrder, mapWrites,
                   query, create, lookup, other, ptr>>

\* handler.go 196-207: the range over the closed channel receives every
\* buffered error and does nothing with it.
DrainErrors ==
    /\ pc = "drain"
    /\ errorsChan.closed
    /\ errorsChan' = [errorsChan EXCEPT !.buf = <<>>]
    /\ pc' = "merge"
    /\ UNCHANGED <<listingReq, listingResp, listings, uniqueUserIDs, task, userMap, mu, wg,
                   response, lookupCalls, completionOrder, mapWrites,
                   query, create, lookup, other, ptr>>

\* The merge giving every listing a copy of its user in a new object.
AggregateCopying ==
    /\ pc = "merge"
    /\ response' = PublicListingsResponse(StatusOK, TRUE,
                       AggregateListings(listings, userMap), "")
    /\ ptr' = [ptr EXCEPT !.User =
                  [i \in 1..Len(listings) |->
                      IF listings[i].UserID \in DOMAIN ptr.userMap
                      THEN MaxUserID + i ELSE NilPtr]]
    /\ pc' = "done"
    /\ UNCHANGED <<listingReq, listingResp, listings, uniqueUserIDs, task, userMap, mu, wg,
                   errorsChan, lookupCalls, completionOrder, mapWrites,
                   query, create, lookup, other>>

\* handler.go 209-223: the merge and the encoded response.  Line 218 copies
\* the pointer held by the map into the User field of each listing.
Aggregate ==
    /\ pc = "merge"
    /\ response' = PublicListingsResponse(StatusOK, TRUE,
                       AggregateListings(listings, userMap), "")
    /\ ptr' = [ptr EXCEPT !.User =
                  [i \in 1..Len(listings) |->
                      PtrGet(ptr.userMap, listings[i].UserID)]]
    /\ pc' = "done"
    /\ UNCHANGED <<listingReq, listingResp, listings, uniqueUserIDs, task, userMap, mu, wg,
                   errorsChan, lookupCalls, completionOrder, mapWrites,
                   query, create, lookup, other>>

\* ------------------------------------------------------ lookup goroutines
\* handler.go 177, user_service_client.go 78-84: the GET goes out.
TaskCall(id) ==
    /\ task[id].pc = "start"
    /\ lookupCalls' = [lookupCalls EXCEPT ![id] = @ + 1]
    /\ task' = [task EXCEPT ![id].pc = "inflight"]
    /\ UNCHANGED <<pc, listingReq, listingResp, listings, uniqueUserIDs, userMap, mu, wg,
                   errorsChan, response, completionOrder, mapWrites,
                   query, create, lookup, other, ptr>>

\* GetUserByID returns, and a not-found answer is asked for a second time.
TaskReturnRetry(id, resp) ==
    /\ task[id].pc = "inflight"
    /\ LET r == GetUserByID(resp)
       IN  IF r.err # Nil
           THEN /\ ~errorsChan.closed
                /\ Len(errorsChan.buf) < errorsChan.cap
                /\ errorsChan' = [errorsChan EXCEPT
                       !.buf = Append(@, [id |-> id, cause |-> r.err])]
                /\ task' = [task EXCEPT ![id] =
                       [pc |-> "deferred", user |-> r.user, err |-> r.err]]
           ELSE /\ task' = [task EXCEPT ![id] =
                       [pc |-> IF r.user # Nil THEN "returned"
                               ELSE IF lookupCalls[id] < 2 THEN "start"
                               ELSE "deferred",
                        user |-> r.user, err |-> r.err]]
                /\ UNCHANGED errorsChan
    /\ UNCHANGED <<pc, listingReq, listingResp, listings, uniqueUserIDs, userMap,
                   mu, wg, response, lookupCalls, completionOrder,
                   mapWrites, query, create, lookup, other, ptr>>

\* GetUserByID returns, and the result is stored without the nil check of
\* line 184.
TaskReturnNoNilCheck(id, resp) ==
    /\ task[id].pc = "inflight"
    /\ LET r == GetUserByID(resp)
       IN  IF r.err # Nil
           THEN /\ ~errorsChan.closed
                /\ Len(errorsChan.buf) < errorsChan.cap
                /\ errorsChan' = [errorsChan EXCEPT
                       !.buf = Append(@, [id |-> id, cause |-> r.err])]
                /\ task' = [task EXCEPT ![id] =
                       [pc |-> "deferred", user |-> r.user, err |-> r.err]]
           ELSE /\ task' = [task EXCEPT ![id] =
                       [pc |-> "returned", user |-> r.user, err |-> r.err]]
                /\ UNCHANGED errorsChan
    /\ UNCHANGED <<pc, listingReq, listingResp, listings, uniqueUserIDs, userMap,
                   mu, wg, response, lookupCalls, completionOrder,
                   mapWrites, query, create, lookup, other, ptr>>

\* handler.go 177-184, user_service_client.go 84-107: GetUserByID returns
\* (user, err).  With an error the goroutine sends the wrapped error on the
\* buffered channel and returns; with no error and a nil user it returns;
\* with a user it goes on to mu.Lock().
TaskReturn(id, resp) ==
    /\ task[id].pc = "inflight"
    /\ LET r == GetUserByID(resp)
       IN  IF r.err # Nil
           THEN /\ ~errorsChan.closed
                /\ Len(errorsChan.buf) < errorsChan.cap
                /\ errorsChan' = [errorsChan EXCEPT
                       !.buf = Append(@, [id |-> id, cause |-> r.err])]
                /\ task' = [task EXCEPT ![id] =
                       [pc |-> "deferred", user |-> r.user, err |-> r.err]]
           ELSE /\ task' = [task EXCEPT ![id] =
                       [pc |-> IF r.user # Nil THEN "returned" ELSE "deferred",
                        user |-> r.user, err |-> r.err]]
                /\ UNCHANGED errorsChan
    /\ UNCHANGED <<pc, listingReq, listingResp, listings, uniqueUserIDs, userMap,
                   mu, wg, response, lookupCalls, completionOrder,
                   mapWrites, query, create, lookup, other, ptr>>

\* mu.Lock() that does not wait for the mutex to be free.
TaskLockNoGuard(id) ==
    /\ task[id].pc = "returned"
    /\ mu' = id
    /\ task' = [task EXCEPT ![id].pc = "locked"]
    /\ UNCHANGED <<pc, listingReq, listingResp, listings, uniqueUserIDs, userMap,
                   wg, errorsChan, response, lookupCalls,
                   completionOrder, mapWrites, query, create, lookup,
                   other, ptr>>

\* handler.go 185: mu.Lock() is taken only when the mutex is free.
TaskLock(id) ==
    /\ task[id].pc = "returned"
    /\ mu = 0
    /\ mu' = id
    /\ task' = [task EXCEPT ![id].pc = "locked"]
    /\ UNCHANGED <<pc, listingReq, listingResp, listings, uniqueUserIDs, userMap, wg,
                   errorsChan, response, lookupCalls,
                   completionOrder, mapWrites, query, create, lookup,
                   other, ptr>>

\* The key the range loop of line 173 stopped at.
LastKey == CHOOSE k \in uniqueUserIDs : \A j \in uniqueUserIDs : j <= k

\* The write of a goroutine that closes over the loop variable instead of
\* taking the id as its argument: the key is the key the loop stopped at.
TaskWriteLoopVariable(id) ==
    /\ task[id].pc = "locked"
    /\ userMap' = [k \in DOMAIN userMap \cup {LastKey} |->
                      IF k = LastKey THEN task[id].user ELSE userMap[k]]
    /\ mapWrites' = [mapWrites EXCEPT ![LastKey] = @ + 1]
    /\ task' = [task EXCEPT ![id].pc = "written"]
    /\ UNCHANGED <<pc, listingReq, listingResp, listings, uniqueUserIDs, mu, wg,
                   errorsChan, response, lookupCalls, completionOrder,
                   query, create, lookup, other, ptr>>

\* handler.go 186
TaskWrite(id) ==
    /\ task[id].pc = "locked"
    /\ userMap' = [k \in DOMAIN userMap \cup {id} |->
                      IF k = id THEN task[id].user ELSE userMap[k]]
    /\ ptr' = [ptr EXCEPT !.userMap =
                  [k \in DOMAIN ptr.userMap \cup {id} |->
                      IF k = id THEN ObjectOf(id) ELSE ptr.userMap[k]]]
    /\ mapWrites' = [mapWrites EXCEPT ![id] = @ + 1]
    /\ task' = [task EXCEPT ![id].pc = "written"]
    /\ UNCHANGED <<pc, listingReq, listingResp, listings, uniqueUserIDs, mu, wg,
                   errorsChan, response, lookupCalls, completionOrder,
                   query, create, lookup, other>>

\* handler.go 187
TaskUnlock(id) ==
    /\ task[id].pc = "written"
    /\ mu' = 0
    /\ task' = [task EXCEPT ![id].pc = "deferred"]
    /\ UNCHANGED <<pc, listingReq, listingResp, listings, uniqueUserIDs, userMap, wg,
                   errorsChan, response, lookupCalls,
                   completionOrder, mapWrites, query, create, lookup,
                   other, ptr>>

\* handler.go 176: the deferred wg.Done() as the goroutine returns.
TaskDone(id) ==
    /\ task[id].pc = "deferred"
    /\ wg' = wg - 1
    /\ task' = [task EXCEPT ![id].pc = "done"]
    /\ completionOrder' = Append(completionOrder, id)
    /\ UNCHANGED <<pc, listingReq, listingResp, listings, uniqueUserIDs, userMap, mu,
                   errorsChan, response, lookupCalls, mapWrites, query,
                   create, lookup, other, ptr>>

\* ---------------------------------------------------------- create handlers
\* handler.go 55-75, user_service_client.go 43-54: CreatePublicUser decodes
\* and validates the body and, when it is valid, posts the form upstream.
CreatePublicUser(body) ==
    /\ create.pc = "idle"
    /\ create' =
          IF ~body.decodable
          THEN [create EXCEPT !.pc = "done", !.op = "user", !.body = body,
                   !.response = CreateResponse(StatusBadRequest,
                                               "Invalid request body", Nil)]
          ELSE IF ~UserRequestValid(body)
          THEN [create EXCEPT !.pc = "done", !.op = "user", !.body = body,
                   !.response = CreateResponse(StatusBadRequest,
                                               "User name is required", Nil)]
          ELSE [create EXCEPT !.pc = "calling", !.op = "user", !.body = body,
                   !.sent = [name |-> body.Name],
                   !.userCalls = @ + 1]
    /\ UNCHANGED <<listingsVars, lookup, other, ptr>>

\* handler.go 75-84, user_service_client.go 54-73: CreateUser returns.
CreateUserReturn ==
    /\ create.pc = "calling"
    /\ create.op = "user"
    /\ \E resp \in CreateUserResponses(create.sent.name) :
       LET r == CreateUser(resp)
       IN  create' = [create EXCEPT !.pc = "done", !.sent = Nil,
                         !.answer = resp,
                         !.response =
                             IF r.err # Nil
                             THEN CreateResponse(StatusInternalServerError,
                                                 "Failed to create user", Nil)
                             ELSE CreateResponse(StatusOK, "", r.user)]
    /\ UNCHANGED <<listingsVars, lookup, other, ptr>>

\* handler.go 88-116, listing_service_client.go 46-59: CreatePublicListing
\* decodes and validates the body and, when it is valid, posts the form.
CreatePublicListing(body) ==
    /\ create.pc = "idle"
    /\ create' =
          IF ~body.decodable
          THEN [create EXCEPT !.pc = "done", !.op = "listing", !.body = body,
                   !.response = CreateResponse(StatusBadRequest,
                                               "Invalid request body", Nil)]
          ELSE IF ~ListingRequestValid(body)
          THEN [create EXCEPT !.pc = "done", !.op = "listing", !.body = body,
                   !.response =
                       CreateResponse(StatusBadRequest,
                           IF body.UserID = 0 \/ body.ListingType = ""
                              \/ body.Price <= 0
                           THEN "User ID, listing type, and price are required and valid"
                           ELSE "Listing type must be 'rent' or 'sale'", Nil)]
          ELSE [create EXCEPT !.pc = "calling", !.op = "listing", !.body = body,
                   !.sent = [user_id |-> Itoa(body.UserID),
                             listing_type |-> body.ListingType,
                             price |-> Itoa(body.Price)],
                   !.listingCalls = @ + 1]
    /\ UNCHANGED <<listingsVars, lookup, other, ptr>>

\* handler.go 116-126, listing_service_client.go 59-78: CreateListing returns.
CreateListingReturn ==
    /\ create.pc = "calling"
    /\ create.op = "listing"
    /\ \E resp \in CreateListingResponses(create.sent) :
       LET r == CreateListing(resp)
       IN  create' = [create EXCEPT !.pc = "done", !.sent = Nil,
                         !.answer = resp,
                         !.response =
                             IF r.err # Nil
                             THEN CreateResponse(StatusInternalServerError,
                                                 "Failed to create listing", Nil)
                             ELSE CreateResponse(StatusOK, "", r.listing)]
    /\ UNCHANGED <<listingsVars, lookup, other, ptr>>

CreateNext ==
    \/ \E body \in UserBodies : CreatePublicUser(body)
    \/ CreateUserReturn
    \/ \E body \in ListingBodies : CreatePublicListing(body)
    \/ CreateListingReturn

CreateSpec == Init /\ [][CreateNext]_vars

\* ------------------------------------------------- one lookup, end to end
\* user_service_client.go 77-84: the client sends GET /users/<id>.
LookupSend(id, store, dbFails) ==
    /\ lookup.pc = "idle"
    /\ lookup' = [lookup EXCEPT !.pc = "sent", !.id = id, !.path = Itoa(id),
                     !.store = store, !.dbFails = dbFails]
    /\ UNCHANGED <<listingsVars, create, other, ptr>>

\* user_service_client.go 84-87: httpClient.Do fails.
LookupTransportError ==
    /\ lookup.pc = "sent"
    /\ lookup' = [lookup EXCEPT !.pc = "answered",
                     !.answer = HTTPResp(FALSE, 0, FALSE, FALSE, Nil)]
    /\ UNCHANGED <<listingsVars, create, other, ptr>>

\* UserHandler.GetUserByID answers the request.
LookupServe ==
    /\ lookup.pc = "sent"
    /\ lookup' = [lookup EXCEPT !.pc = "answered",
                     !.answer = UserHandlerGetUserByID(lookup.path, lookup.store,
                                                       lookup.dbFails)]
    /\ UNCHANGED <<listingsVars, create, other, ptr>>

\* The body of the answer is cut short on its way to the client.
LookupTruncate ==
    /\ lookup.pc = "answered"
    /\ lookup.answer.sent
    /\ lookup.answer.decodable
    /\ lookup' = [lookup EXCEPT !.answer.decodable = FALSE]
    /\ UNCHANGED <<listingsVars, create, other, ptr>>

\* user_service_client.go 88-107: the client returns (user, err).
LookupReturn ==
    /\ lookup.pc = "answered"
    /\ lookup' = [lookup EXCEPT !.pc = "done",
                     !.result = GetUserByID(lookup.answer)]
    /\ UNCHANGED <<listingsVars, create, other, ptr>>

LookupNext ==
    \/ \E id \in LookupIDs, store \in Stores, dbFails \in BOOLEAN :
           LookupSend(id, store, dbFails)
    \/ LookupTransportError
    \/ LookupServe
    \/ LookupTruncate
    \/ LookupReturn

LookupSpec == Init /\ [][LookupNext]_vars

\* The locals of the request that is taking steps.
Locals ==
    [pc |-> pc, listingReq |-> listingReq, listingResp |-> listingResp,
     listings |-> listings, uniqueUserIDs |-> uniqueUserIDs, task |-> task,
     userMap |-> userMap, mu |-> mu, wg |-> wg, errorsChan |-> errorsChan,
     response |-> response, lookupCalls |-> lookupCalls,
     completionOrder |-> completionOrder, mapWrites |-> mapWrites,
     query |-> query, ptr |-> ptr]

\* Switch with the map a field of the handler, shared by the two requests.
SwitchSharedMap ==
    /\ other' = [Locals EXCEPT !.userMap = other.userMap]
    /\ pc' = other.pc
    /\ listingReq' = other.listingReq
    /\ listingResp' = other.listingResp
    /\ listings' = other.listings
    /\ uniqueUserIDs' = other.uniqueUserIDs
    /\ task' = other.task
    /\ mu' = other.mu
    /\ wg' = other.wg
    /\ errorsChan' = other.errorsChan
    /\ response' = other.response
    /\ lookupCalls' = other.lookupCalls
    /\ completionOrder' = other.completionOrder
    /\ mapWrites' = other.mapWrites
    /\ query' = other.query
    /\ ptr' = other.ptr
    /\ UNCHANGED <<userMap, create, lookup>>

\* The scheduler turns from the goroutines of one request to those of the
\* other: the next steps work on the other request's locals.
Switch ==
    /\ other' = Locals
    /\ pc' = other.pc
    /\ listingReq' = other.listingReq
    /\ listingResp' = other.listingResp
    /\ listings' = other.listings
    /\ uniqueUserIDs' = other.uniqueUserIDs
    /\ task' = other.task
    /\ userMap' = other.userMap
    /\ mu' = other.mu
    /\ wg' = other.wg
    /\ errorsChan' = other.errorsChan
    /\ response' = other.response
    /\ lookupCalls' = other.lookupCalls
    /\ completionOrder' = other.completionOrder
    /\ mapWrites' = other.mapWrites
    /\ query' = other.query
    /\ ptr' = other.ptr
    /\ UNCHANGED <<create, lookup>>

TwoNext ==
    \/ Switch
    \/ ReceiveRequest(<<>>, <<>>, <<>>)
    \/ \E resp \in TwoListingResponses : FetchReturn(resp)
    \/ \E id \in UserIDs : Launch(id)
    \/ WgWait
    \/ CloseErrorsChan
    \/ DrainErrors
    \/ Aggregate
    \/ \E id \in UserIDs : TaskCall(id)
    \/ \E id \in UserIDs : \E resp \in OneAnswerPerOutcome(id) : TaskReturn(id, resp)
    \/ \E id \in UserIDs : TaskLock(id)
    \/ \E id \in UserIDs : TaskWrite(id)
    \/ \E id \in UserIDs : TaskUnlock(id)
    \/ \E id \in UserIDs : TaskDone(id)

TwoSpec == Init /\ [][TwoNext]_vars

Next ==
    \/ \E n \in QueryValues, z \in QueryValues, f \in FilterValues :
           ReceiveRequest(n, z, f)
    \/ \E resp \in ListingHTTPResponses : FetchReturn(resp)
    \/ \E id \in UserIDs : Launch(id)
    \/ WgWait
    \/ CloseErrorsChan
    \/ DrainErrors
    \/ Aggregate
    \/ \E id \in UserIDs : TaskCall(id)
    \/ \E id \in UserIDs : \E resp \in UserHTTPResponses(id) : TaskReturn(id, resp)
    \/ \E id \in UserIDs : TaskLock(id)
    \/ \E id \in UserIDs : TaskWrite(id)
    \/ \E id \in UserIDs : TaskUnlock(id)
    \/ \E id \in UserIDs : TaskDone(id)

Spec == Init /\ [][Next]_vars

\* The runs termination is checked on: the default query, every answer of
\* the listing source whose page lists its references in ascending order
\* (the goroutines depend on the set of references only), and every answer
\* of the user source.
FairPages ==
    {p \in Pages : \A i, j \in 1..Len(p) : i < j => p[i].UserID <= p[j].UserID}
FairListingResponses ==
    ListingFailures \cup {HTTPResp(TRUE, StatusOK, TRUE, TRUE, p) : p \in FairPages}

FairNext ==
    \/ ReceiveRequest(<<>>, <<>>, <<>>)
    \/ \E resp \in FairListingResponses : FetchReturn(resp)
    \/ \E id \in UserIDs : Launch(id)
    \/ WgWait
    \/ CloseErrorsChan
    \/ DrainErrors
    \/ Aggregate
    \/ \E id \in UserIDs : TaskCall(id)
    \/ \E id \in UserIDs : \E resp \in UserHTTPResponses(id) : TaskReturn(id, resp)
    \/ \E id \in UserIDs : TaskLock(id)
    \/ \E id \in UserIDs : TaskWrite(id)
    \/ \E id \in UserIDs : TaskUnlock(id)
    \/ \E id \in UserIDs : TaskDone(id)

\* Fair scheduling of the goroutines, with upstream calls that return (the
\* client timeouts of http_client.go 12-31): a step that stays possible is
\* eventually taken.
FairSpec == Init /\ [][FairNext]_vars /\ WF_vars(FairNext)

\* ================================================================== claims
\* The listing source answered the page request with a usable page.
ListingFetchOK ==
    /\ listingResp # Nil
    /\ listingResp.sent
    /\ listingResp.status = StatusOK
    /\ listingResp.decodable
    /\ listingResp.Result

\* The listing source answered, and the answer is one of the four failures.
ListingFetchFailed == listingResp # Nil /\ ~ListingFetchOK

\* The handler is past the barrier of line 192.
PastBarrier == pc \in {"close", "drain", "merge"} \/ (pc = "done" /\ uniqueUserIDs # {})

TasksRunning == {id \in UserIDs : task[id].pc \notin {"none", "done"}}
Found == {id \in uniqueUserIDs : task[id].pc = "done" /\ task[id].user # Nil}
Failed == {id \in uniqueUserIDs : task[id].pc = "done" /\ task[id].err # Nil}
NotFound == {id \in uniqueUserIDs :
                task[id].pc = "done" /\ task[id].err = Nil /\ task[id].user = Nil}

\* C1: after a successful page fetch the response has one enriched listing
\* per listing of the page, in the page's order, each carrying the
\* identifier, category, price and timestamps of the listing at its position.
C1_OneEnrichedPerListingInOrder ==
    (pc = "done" /\ ListingFetchOK) =>
        /\ Len(response.Listings) = Len(listingResp.payload)
        /\ \A i \in 1..Len(listingResp.payload) :
              /\ response.Listings[i].ID = listingResp.payload[i].ID
              /\ response.Listings[i].ListingType = listingResp.payload[i].ListingType
              /\ response.Listings[i].Price = listingResp.payload[i].Price
              /\ response.Listings[i].CreatedAt = listingResp.payload[i].CreatedAt
              /\ response.Listings[i].UpdatedAt = listingResp.payload[i].UpdatedAt

\* A page of three listings with unsorted identifiers, answered with one
\* user found and one not.
C1_Witness ==
    /\ pc = "done"
    /\ ListingFetchOK
    /\ Len(listings) = 3
    /\ listings[1].ID < listings[2].ID
    /\ listings[3].ID < listings[1].ID
    /\ Len(response.Listings) = 3
    /\ Found # {}
    /\ Failed \cup NotFound # {}

\* C2: the handler is past wg.Wait() -- closing, draining, merging or having
\* responded -- only when every launched lookup goroutine has returned; a
\* response is never written while a lookup is still running.
C2_ResponseOnlyAfterAllTasks ==
    /\ PastBarrier => \A id \in uniqueUserIDs : task[id].pc = "done"
    /\ response # Nil => TasksRunning = {}

\* A response written after a lookup that failed first and a lookup that
\* returned a user afterwards.
C2_Witness ==
    /\ pc = "done"
    /\ response # Nil
    /\ Len(completionOrder) >= 2
    /\ completionOrder[1] \in Failed
    /\ completionOrder[2] \in Found

\* C3: whenever the page fetch succeeded the response has Result true and
\* no error string, whatever the lookups returned.
C3_LookupFailuresNeverFailRequest ==
    (pc = "done" /\ ListingFetchOK) =>
        /\ response.Result
        /\ response.Error = ""
        /\ response.status = StatusOK

\* Every lookup of a page with two references failed and the request is answered.
C3_Witness ==
    /\ pc = "done"
    /\ ListingFetchOK
    /\ Cardinality(uniqueUserIDs) >= 2
    /\ Failed = uniqueUserIDs

\* C4: in the response a listing embeds exactly what the lookup of its own
\* user reference returned: that user record when one was returned, nothing
\* when the lookup failed or found nothing; if every reference resolved,
\* every listing embeds a user.
C4_EmbedIsOwnLookupResult ==
    (pc = "done" /\ ListingFetchOK) =>
        /\ \A i \in 1..Len(listings) :
              LET ref == listings[i].UserID
                  embedded == response.Listings[i].User
              IN  /\ embedded = task[ref].user
                  /\ (embedded # Nil) <=> (ref \in Found)
                  /\ (embedded # Nil) => embedded = User(ref)
        /\ (Found = uniqueUserIDs) =>
               \A i \in 1..Len(listings) : response.Listings[i].User # Nil

\* The scenario of the specification: two listings share a reference that
\* resolves, a third listing's reference fails.
C4_Witness ==
    /\ pc = "done"
    /\ ListingFetchOK
    /\ Len(listings) = 3
    /\ listings[1].UserID = listings[2].UserID
    /\ listings[1].UserID \in Found
    /\ listings[3].UserID \in Failed
    /\ response.Listings[1].User # Nil
    /\ response.Listings[3].User = Nil

\* C5: one request issues exactly one get-user call per distinct user
\* reference of its page: never two for one reference, none for a reference
\* that is not on the page, and none of the page's references is skipped.
C5_OneLookupPerDistinctReference ==
    /\ \A id \in UserIDs : lookupCalls[id] <= 1
    /\ (pc = "done" /\ ListingFetchOK) =>
           \A id \in UserIDs :
               lookupCalls[id] =
                   IF \E i \in 1..Len(listingResp.payload) :
                          listingResp.payload[i].UserID = id
                   THEN 1 ELSE 0

\* Three listings on two references, one not found and one failed.
C5_Witness ==
    /\ pc = "done"
    /\ ListingFetchOK
    /\ Len(listings) = 3
    /\ Cardinality(uniqueUserIDs) = 2
    /\ NotFound # {}
    /\ Failed # {}
    /\ lookupCalls[1] + lookupCalls[2] = 2

\* C6 as stated: once all lookups have finished the shared map has an entry
\* for every distinct user reference of the page, whatever its outcome.
C6_Original_EntryPerReference ==
    PastBarrier => DOMAIN userMap = uniqueUserIDs

\* C6 amended: once all lookups have finished the shared map has exactly one
\* entry for each reference whose lookup returned a user record, holding that
\* record, and no entry for a reference that failed or was not found; until
\* the drain each failed lookup is one error in the channel and a not-found
\* lookup is recorded nowhere.
C6_EntryPerFoundReference ==
    PastBarrier =>
        /\ DOMAIN userMap = Found
        /\ \A id \in Found : userMap[id] = task[id].user
        /\ DOMAIN userMap \cap (Failed \cup NotFound) = {}
        /\ pc \in {"close", "drain"} =>
              /\ Len(errorsChan.buf) = Cardinality(Failed)
              /\ {errorsChan.buf[i].id : i \in 1..Len(errorsChan.buf)} = Failed

\* All lookups finished: one found, one not found.
C6_Witness ==
    /\ pc = "close"
    /\ Found # {}
    /\ NotFound # {}
    /\ DOMAIN userMap # uniqueUserIDs

\* C7: if the page fetch fails (transport error, non-200 status, undecodable
\* body, or result flag false) the response has Result false, a non-empty
\* error string and no listings, and no user lookup is issued.
C7_FetchFailureIsRequestFailure ==
    (pc = "done" /\ ListingFetchFailed) =>
        /\ ~response.Result
        /\ response.Error # ""
        /\ response.Listings = <<>>
        /\ response.status = StatusInternalServerError
        /\ \A id \in UserIDs : lookupCalls[id] = 0 /\ task[id].pc = "none"

\* The listing source answered 200 with a result flag false.
C7_Witness ==
    /\ pc = "done"
    /\ listingResp # Nil
    /\ listingResp.sent
    /\ listingResp.status = StatusOK
    /\ listingResp.decodable
    /\ ~listingResp.Result
    /\ ~response.Result

\* C8: a successfully fetched page of zero listings is answered with Result
\* true and an empty sequence, without any user lookup.
C8_EmptyPageIsSuccess ==
    (pc = "done" /\ ListingFetchOK /\ Len(listingResp.payload) = 0) =>
        /\ response.Result
        /\ response.Listings = <<>>
        /\ response.Error = ""
        /\ response.status = StatusOK
        /\ \A id \in UserIDs : lookupCalls[id] = 0 /\ task[id].pc = "none"

\* The empty page has been answered.
C8_Witness ==
    /\ pc = "done"
    /\ ListingFetchOK
    /\ listingResp.payload = <<>>
    /\ response # Nil

\* C9: at most one lookup goroutine is between mu.Lock() and mu.Unlock(),
\* and it is the holder of the mutex; the merge reads the map only when no
\* goroutine can still write it, and then no entry written has been lost.
C9_MapWritesMutuallyExclusive ==
    LET inSection == {id \in UserIDs : task[id].pc \in {"locked", "written"}}
    IN  /\ Cardinality(inSection) <= 1
        /\ \A id \in inSection : mu = id
        /\ (inSection = {}) => mu = 0
        /\ pc \in {"merge", "done"} =>
              /\ inSection = {}
              /\ \A id \in UserIDs : task[id].pc \notin {"start", "inflight", "returned"}
              /\ \A id \in uniqueUserIDs :
                    task[id].user # Nil =>
                        id \in DOMAIN userMap /\ userMap[id] = task[id].user

\* One goroutine holds the mutex while another one is waiting for it.
C9_Witness ==
    \E a, b \in UserIDs :
        /\ a # b
        /\ task[a].pc = "locked"
        /\ mu = a
        /\ task[b].pc = "returned" /\ task[b].user # Nil

\* C10: the response is a function of the page and of what each lookup
\* returned, and of nothing else: whatever the order in which the lookups
\* complete, it is the page's listings in the page's order, each with the
\* result of its own reference.
C10_ResponseIndependentOfCompletionOrder ==
    (pc = "done" /\ ListingFetchOK) =>
        response =
            [status |-> StatusOK, Result |-> TRUE, Error |-> "",
             Listings |->
                 [i \in 1..Len(listingResp.payload) |->
                     LET l == listingResp.payload[i]
                     IN  [ID |-> l.ID, ListingType |-> l.ListingType,
                          Price |-> l.Price, CreatedAt |-> l.CreatedAt,
                          UpdatedAt |-> l.UpdatedAt, User |-> task[l.UserID].user]]]

\* The lookups completed in the reverse of the order of the page.
C10_Witness ==
    /\ pc = "done"
    /\ ListingFetchOK
    /\ Len(listings) >= 2
    /\ Len(completionOrder) >= 2
    /\ completionOrder[1] = listings[2].UserID
    /\ completionOrder[2] = listings[1].UserID
    /\ Found = uniqueUserIDs

\* C11: the lookups run concurrently: the loop can launch the next lookup
\* whatever the earlier ones are doing, and a launched lookup can issue its
\* call whatever the others are doing, so up to all of them are in flight
\* together and the handler imposes no lower cap.
C11_LookupsLaunchedWithoutWaiting ==
    /\ pc = "spawn" =>
           \A id \in uniqueUserIDs : task[id].pc = "none" => ENABLED Launch(id)
    /\ \A id \in UserIDs : task[id].pc = "start" => ENABLED TaskCall(id)

\* Every reference of a page that uses all user references is in flight.
C11_Witness ==
    /\ pc = "wait"
    /\ uniqueUserIDs = UserIDs
    /\ Cardinality(uniqueUserIDs) >= 2
    /\ \A id \in uniqueUserIDs : task[id].pc = "inflight"

\* C12: within one request every key of the shared map is written at most
\* once, and only by the goroutine launched for that key.
C12_EachReferenceWrittenAtMostOnce ==
    \A id \in UserIDs :
        /\ mapWrites[id] <= 1
        /\ mapWrites[id] = 1 =>
               /\ task[id].pc \in {"written", "deferred", "done"}
               /\ task[id].user # Nil
               /\ id \in DOMAIN userMap
        /\ mapWrites[id] = 0 => id \notin DOMAIN userMap

\* Two goroutines have each written their own key.
C12_Witness ==
    /\ Cardinality(uniqueUserIDs) >= 2
    /\ \A id \in uniqueUserIDs : mapWrites[id] = 1
    /\ pc = "done"

\* C13: a create request that fails validation -- an empty user name, or a
\* listing with a zero user reference, a category other than rent or sale,
\* or a price not greater than 0 -- is answered 400 with no call to either
\* source; a request that passes validation issues exactly one create call,
\* to its own source.
C13_ValidationBeforeUpstreamCall ==
    create.pc # "idle" =>
        LET b == create.body
            rejected ==
                \/ ~b.decodable
                \/ create.op = "user" /\ b.Name = ""
                \/ create.op = "listing" /\
                       (\/ b.UserID = 0
                        \/ b.ListingType \notin {"rent", "sale"}
                        \/ ~(b.Price > 0))
        IN  /\ rejected =>
                /\ create.pc = "done"
                /\ create.response.status = StatusBadRequest
                /\ create.userCalls = 0
                /\ create.listingCalls = 0
            /\ ~rejected =>
                /\ create.userCalls = IF create.op = "user" THEN 1 ELSE 0
                /\ create.listingCalls = IF create.op = "listing" THEN 1 ELSE 0
                /\ create.pc = "done" =>
                       create.response.status \in {StatusOK, StatusInternalServerError}

\* A listing with price 0 and otherwise valid fields has been rejected.
C13_Witness ==
    /\ create.pc = "done"
    /\ create.op = "listing"
    /\ create.body.decodable
    /\ create.body.UserID = 1
    /\ create.body.ListingType = "rent"
    /\ create.body.Price = 0
    /\ create.response.status = StatusBadRequest

\* C14 as stated: the user service answers 404 exactly when the identifier
\* has no stored record, and the client then returns not-found.
C14_Original_NotFoundIffNoStoredRecord ==
    (lookup.pc = "done" /\ lookup.answer.sent /\ ~lookup.dbFails) =>
        /\ (lookup.answer.status = StatusNotFound) <=> (lookup.id \notin lookup.store)
        /\ (lookup.result.user = Nil /\ lookup.result.err = Nil)
               <=> (lookup.id \notin lookup.store)

\* C14 amended: the client returns not-found (no user, no error) exactly
\* when the user service answered 404, and the user service answers 404
\* exactly when the identifier is positive, has no stored record and the
\* query succeeded; an identifier <= 0 is answered 500.  The client returns
\* an error for a transport error, another non-200 status, an undecodable
\* body or a false result flag, and the stored record otherwise; never both
\* an error and not-found.
C14_ThreeLookupOutcomes ==
    /\ (lookup.pc \in {"answered", "done"} /\ lookup.answer.sent) =>
           /\ (lookup.answer.status = StatusNotFound) <=>
                  (lookup.id >= 1 /\ lookup.id \notin lookup.store /\ ~lookup.dbFails)
           /\ (lookup.id <= 0 \/ lookup.dbFails) =>
                  lookup.answer.status = StatusInternalServerError
           /\ (lookup.answer.status = StatusOK) <=>
                  (lookup.id \in lookup.store /\ ~lookup.dbFails)
    /\ lookup.pc = "done" =>
           LET a == lookup.answer
               r == lookup.result
               notFound == r.user = Nil /\ r.err = Nil
               failed == r.err # Nil
           IN  /\ notFound <=> (a.sent /\ a.status = StatusNotFound)
               /\ failed <=>
                      \/ ~a.sent
                      \/ a.status \notin {StatusOK, StatusNotFound}
                      \/ a.status = StatusOK /\ (~a.decodable \/ ~a.Result)
               /\ ~(notFound /\ failed)
               /\ (~notFound /\ ~failed) =>
                      r.user = User(lookup.id) /\ lookup.id \in lookup.store

\* The three outcomes: a lookup of identifier 0, which has no stored record,
\* was answered 500 and returned as a failure.
C14_Witness ==
    /\ lookup.pc = "done"
    /\ lookup.id = 0
    /\ ~lookup.dbFails
    /\ lookup.answer.sent
    /\ lookup.answer.status = StatusInternalServerError
    /\ lookup.result.err # Nil

\* C15: the response does not tell a not-found lookup from a failed one: it
\* is determined by the page and by the records of the references that were
\* found, so two runs on one page that differ only in which of the other
\* references were not found and which failed answer the same.
C15_NotFoundAndFailedIndistinguishable ==
    (pc = "done" /\ ListingFetchOK) =>
        /\ response.status = StatusOK
        /\ response.Result
        /\ response.Error = ""
        /\ Len(response.Listings) = Len(listingResp.payload)
        /\ \A i \in 1..Len(listingResp.payload) :
               LET ref == listingResp.payload[i].UserID
               IN  /\ ref \in Found => response.Listings[i].User = task[ref].user
                   /\ ref \in NotFound \cup Failed =>
                          response.Listings[i].User = Nil

\* One page with a reference that was not found and one whose lookup failed.
C15_Witness ==
    /\ pc = "done"
    /\ ListingFetchOK
    /\ NotFound # {}
    /\ Failed # {}
    /\ \A i \in 1..Len(response.Listings) : response.Listings[i].User = Nil

\* C16 as stated: two listings of a page with the same user reference carry
\* users that are equal in value and are not one shared record object.
C16_Original_IndependentCopies ==
    (pc = "done" /\ ListingFetchOK) =>
        \A i, j \in 1..Len(listings) :
            (i # j /\ listings[i].UserID = listings[j].UserID
                   /\ listings[i].UserID \in Found) =>
                /\ response.Listings[i].User = response.Listings[j].User
                /\ ptr.User[i] # ptr.User[j]

\* C16 amended: two listings of a page with the same user reference carry
\* users that are equal in value, namely the record its one lookup returned;
\* in the handler's memory both User fields hold the same pointer, the one
\* stored in the map, so they are aliases of the one object that lookup
\* decoded; and a listing has the nil pointer exactly when its user is absent.
C16_SharedReferenceSharesOneRecord ==
    (pc = "done" /\ ListingFetchOK) =>
        /\ Len(ptr.User) = Len(listings)
        /\ \A i \in 1..Len(listings) :
               /\ (ptr.User[i] = NilPtr) <=> (response.Listings[i].User = Nil)
               /\ ptr.User[i] # NilPtr =>
                      /\ ptr.User[i] = ptr.userMap[listings[i].UserID]
                      /\ ptr.User[i] = ObjectOf(listings[i].UserID)
                      /\ response.Listings[i].User = task[listings[i].UserID].user
        /\ \A i, j \in 1..Len(listings) :
               (listings[i].UserID = listings[j].UserID) =>
                   /\ response.Listings[i].User = response.Listings[j].User
                   /\ ptr.User[i] = ptr.User[j]

\* Two listings of one found user, next to a listing of another found user.
C16_Witness ==
    /\ pc = "done"
    /\ ListingFetchOK
    /\ \E i, j, k \in 1..Len(listings) :
           /\ i # j
           /\ listings[i].UserID = listings[j].UserID
           /\ listings[k].UserID # listings[i].UserID
           /\ ptr.User[i] # NilPtr
           /\ ptr.User[i] = ptr.User[j]
           /\ ptr.User[k] # NilPtr
           /\ ptr.User[k] # ptr.User[i]

\* C17: the page request sent to the listing source has a page number >= 1
\* and a page size >= 1: an unset, non-integer or below-1 page number is
\* sent as 1 and such a page size as 10, a valid value is sent with the same
\* value, and the user filter is sent as received exactly when it is not
\* empty.
C17_PageRequestNormalised ==
    pc = "fetching" =>
        LET n == Atoi(query.page_num)
            z == Atoi(query.page_size)
            sentN == Atoi(listingReq["page_num"])
            sentZ == Atoi(listingReq["page_size"])
        IN  /\ sentN.err = Nil /\ sentN.val >= 1
            /\ sentZ.err = Nil /\ sentZ.val >= 1
            /\ sentN.val = IF n.err # Nil \/ n.val < 1 THEN 1 ELSE n.val
            /\ sentZ.val = IF z.err # Nil \/ z.val < 1 THEN 10 ELSE z.val
            /\ ("user_id" \in DOMAIN listingReq) <=> (query.user_id # <<>>)
            /\ "user_id" \in DOMAIN listingReq =>
                   listingReq["user_id"] = query.user_id

\* A page size of 0 sent as 10, next to a valid page number and a filter.
C17_Witness ==
    /\ pc = "fetching"
    /\ query.page_size = <<"0">>
    /\ query.page_num = <<"+", "2">>
    /\ query.user_id = <<"1">>
    /\ listingReq["page_size"] = <<"1", "0">>
    /\ listingReq["page_num"] = <<"2">>
    /\ listingReq["user_id"] = <<"1">>

\* What one request holds, in terms of its own page and its own lookups only.
OwnStateOnly(l) ==
    LET fetched == /\ l.listingResp # Nil
                   /\ l.listingResp.sent
                   /\ l.listingResp.status = StatusOK
                   /\ l.listingResp.decodable
                   /\ l.listingResp.Result
        page == IF fetched THEN l.listingResp.payload ELSE <<>>
        refs == {page[i].UserID : i \in 1..Len(page)}
    IN  /\ l.uniqueUserIDs = refs
        /\ \A id \in UserIDs \ refs : l.task[id] = NoTask
        /\ DOMAIN l.userMap \subseteq refs
        /\ \A id \in DOMAIN l.userMap :
               /\ l.userMap[id] = l.task[id].user
               /\ l.task[id].pc \in {"written", "deferred", "done"}
        /\ l.mu \in {0} \cup {id \in refs : l.task[id].pc \in {"locked", "written"}}
        /\ l.wg = Cardinality({id \in refs : l.task[id].pc \notin {"none", "done"}})
        /\ refs # {} => l.errorsChan.cap = Cardinality(refs)
        /\ l.pc \notin {"drain", "merge", "done"} =>
               /\ Len(l.errorsChan.buf) =
                      Cardinality({id \in refs : l.task[id].err # Nil})
               /\ \A k \in 1..Len(l.errorsChan.buf) :
                      /\ l.errorsChan.buf[k].id \in refs
                      /\ l.errorsChan.buf[k].cause = l.task[l.errorsChan.buf[k].id].err
        /\ (l.pc = "done" /\ fetched) =>
               l.response =
                   [status |-> StatusOK, Result |-> TRUE, Error |-> "",
                    Listings |->
                        [i \in 1..Len(page) |->
                            [ID |-> page[i].ID, ListingType |-> page[i].ListingType,
                             Price |-> page[i].Price, CreatedAt |-> page[i].CreatedAt,
                             UpdatedAt |-> page[i].UpdatedAt,
                             User |-> l.task[page[i].UserID].user]]]

\* C18: of two concurrent requests each has its own reference set, map,
\* guard and error channel, holding only what its own lookups put there, and
\* each response is determined by that request's own page and own lookup
\* outcomes.
C18_RequestsShareNoState == OwnStateOnly(Locals) /\ OwnStateOnly(other)

\* Both requests are at the barrier on pages that share reference 1: one
\* holds its guard to store the user its lookup found, while the lookup of
\* the other failed and its error waits in that request's channel.
C18_Witness ==
    /\ pc = "wait"
    /\ other.pc = "wait"
    /\ 1 \in uniqueUserIDs \cap other.uniqueUserIDs
    /\ task[1].pc = "locked"
    /\ mu = 1
    /\ errorsChan.buf = <<>>
    /\ other.task[1].pc = "deferred"
    /\ other.task[1].err # Nil
    /\ Len(other.errorsChan.buf) = 1
    /\ other.mu = 0

\* C19: GetPublicListings cannot deadlock and terminates.  A lookup that is
\* in flight can always send its error (the channel is open and has room),
\* the channel is closed only when every lookup task is done, the guard is
\* held only by a task that is about to write or to unlock, a written
\* response is never written again, and under fair scheduling a taken guard
\* is released and a request that was received is answered.
C19_NoDeadlockAndTermination ==
    /\ [](\A id \in UserIDs :
              task[id].pc = "inflight" =>
                  /\ ~errorsChan.closed
                  /\ Len(errorsChan.buf) < errorsChan.cap)
    /\ [](Len(errorsChan.buf) <= errorsChan.cap)
    /\ [](errorsChan.closed => \A id \in uniqueUserIDs : task[id].pc = "done")
    /\ [](mu # 0 => task[mu].pc \in {"locked", "written"})
    /\ [][response # Nil => response' = response]_vars
    /\ (mu # 0) ~> (mu = 0)
    /\ (pc = "fetching") ~> (pc = "done" /\ response # Nil)

\* A request with two references was answered although both lookups failed.
C19_Witness ==
    /\ pc = "done"
    /\ response # Nil
    /\ response.Result
    /\ Cardinality(uniqueUserIDs) >= 2
    /\ Failed = uniqueUserIDs
    /\ errorsChan.closed
    /\ wg = 0
    /\ mu = 0

====
